---------------------------- MODULE Spec2Model ----------------------------
(***************************************************************************)
(* A state-machine model of sleap/gui/slider.py (VideoSlider, SliderMark). *)
(*                                                                         *)
(* Pixel positions and the zoom factor are Python floats in the source;    *)
(* they are modelled as exact rationals <<n, d>> with d > 0.  Values       *)
(* (frame indices) are integers.  Purely visual state (item geometry,      *)
(* colours, scroll position) is left out; the mark tables, the selection   *)
(* endpoints, the value/viewport state and the signal wiring are kept.     *)
(***************************************************************************)
EXTENDS Integers, Sequences, FiniteSets, TLC

(***************************************************************************)
(* Bounds of the model.                                                    *)
(***************************************************************************)
\* values offered to setMinimum / setMaximum / setValue / selections: 0..MaxVal
MaxVal == 21
\* longest endpoint sequence the selection operations are driven to
MaxSel == 4
\* most marks the mark set is driven to
MaxMarks == 4
\* most pointer-release callbacks wired at once that presses are driven to
MaxConn == 2

(***************************************************************************)
(* Program constants.                                                      *)
(***************************************************************************)
\* `None` (end_val of a non-track mark, an unset _zoom_start_val)
None == -1
\* handle_width = 6
handle_width == 6
\* outline_rect = QtCore.QRectF(0, 0, 200, ...)
init_box_width == 200

(***************************************************************************)
(* Exact rationals standing for Python floats.                             *)
(***************************************************************************)
RECURSIVE GCD(_, _)
GCD(a, b) == IF b = 0 THEN a ELSE GCD(b, a % b)

Abs(a) == IF a < 0 THEN -a ELSE a

\* the rational n/d in lowest terms with a positive denominator (d # 0)
Rat(n, d) ==
    LET g == GCD(Abs(n), Abs(d))
        s == IF d < 0 THEN -1 ELSE 1
    IN  <<(s * n) \div g, (s * d) \div g>>

RInt(i) == <<i, 1>>
RAdd(p, q) == Rat(p[1] * q[2] + q[1] * p[2], p[2] * q[2])
RSub(p, q) == Rat(p[1] * q[2] - q[1] * p[2], p[2] * q[2])
RMul(p, q) == Rat(p[1] * q[1], p[2] * q[2])
\* q # 0
RDiv(p, q) == Rat(p[1] * q[2], p[2] * q[1])
RLess(p, q) == p[1] * q[2] < q[1] * p[2]
RMax(p, q) == IF RLess(p, q) THEN q ELSE p
RMin(p, q) == IF RLess(q, p) THEN q ELSE p
RIsZero(p) == p[1] = 0

\* Python 3 round(): to the nearest integer, ties to the even one
PyRound(p) ==
    LET f == p[1] \div p[2]
        r == p[1] - f * p[2]
    IN  IF 2 * r < p[2] THEN f
        ELSE IF 2 * r > p[2] THEN f + 1
        ELSE IF f % 2 = 0 THEN f ELSE f + 1

IMax(a, b) == IF a > b THEN a ELSE b
IMin(a, b) == IF a < b THEN a ELSE b


(***************************************************************************)
(* State of one VideoSlider.                                               *)
(***************************************************************************)
VARIABLES
    val_min,        \* self._val_min
    val_max,        \* self._val_max
    val_main,       \* self._val_main
    zoom_factor,    \* self.zoom_factor (rational)
    width,          \* self.width(): the widget's pixel width (set by Qt)
    box_width,      \* self._box_rect.width() (rational)
    enabled,        \* self._enabled
    selection,      \* self._selection: sequence of endpoints
    marks,          \* self._marks: set of SliderMark objects
    mark_items,     \* keys of self._mark_items (marks owning a scene item)
    mark_labels,    \* keys of self._mark_labels (marks owning a text label)
    tick_marks,     \* self._tick_marks: sequence of SliderMark objects
    zoom_start_val, \* self._zoom_start_val (None when unset)
    moveConns,      \* slots connected to mouseMoved, in connection order
    releaseConns,   \* `done` closures connected to mouseReleased
    emitted,        \* signals emitted by the last operation, in order
    raised,         \* exception that ended the last operation ("none" if none)
    logged,         \* exceptions raised inside slots of the last operation
    lastOp,         \* the last operation and its arguments
    conv,           \* last result of the value <-> position conversions
    ret             \* the last query: function, arguments, returned numbers

vars == <<val_min, val_max, val_main, zoom_factor, width, box_width, enabled,
          selection, marks, mark_items, mark_labels, tick_marks,
          zoom_start_val, moveConns, releaseConns, emitted, raised, logged,
          lastOp, conv, ret>>

\* the slider's fields as one record, threaded through the method operators
Cur ==
    [val_min |-> val_min, val_max |-> val_max, val_main |-> val_main,
     zoom_factor |-> zoom_factor, width |-> width, box_width |-> box_width,
     enabled |-> enabled, selection |-> selection, marks |-> marks,
     mark_items |-> mark_items, mark_labels |-> mark_labels,
     tick_marks |-> tick_marks, zoom_start_val |-> zoom_start_val,
     moveConns |-> moveConns, releaseConns |-> releaseConns,
     emitted |-> <<>>, raised |-> "none", logged |-> <<>>]

\* the state after an operation that left the slider as record s
Commit(s) ==
    /\ val_min' = s.val_min
    /\ val_max' = s.val_max
    /\ val_main' = s.val_main
    /\ zoom_factor' = s.zoom_factor
    /\ width' = s.width
    /\ box_width' = s.box_width
    /\ enabled' = s.enabled
    /\ selection' = s.selection
    /\ marks' = s.marks
    /\ mark_items' = s.mark_items
    /\ mark_labels' = s.mark_labels
    /\ tick_marks' = s.tick_marks
    /\ zoom_start_val' = s.zoom_start_val
    /\ moveConns' = s.moveConns
    /\ releaseConns' = s.releaseConns
    /\ emitted' = s.emitted
    /\ raised' = s.raised
    /\ logged' = s.logged

\* an uncaught Python exception: the rest of the call chain is skipped
Raise(s, exc) == [s EXCEPT !.raised = exc]
\* a signal emission with its (up to two) integer arguments
Sig(name, a, b) == [sig |-> name, a |-> a, b |-> b]
Emit(s, sig) == [s EXCEPT !.emitted = Append(@, sig)]

(***************************************************************************)
(* Value <-> position mapping.                                             *)
(***************************************************************************)
\* VideoSlider._sliderWidth
_sliderWidth(s) == RSub(s.box_width, RInt(handle_width))

\* VideoSlider._toPos; val is an integer
_toPos(s, val, center) ==
    LET x0 == RInt(val - s.val_min)
        x1 == RDiv(x0, RInt(IMax(1, s.val_max - s.val_min)))
        x2 == RMul(x1, _sliderWidth(s))
    IN  IF center THEN RAdd(x2, Rat(handle_width, 2)) ELSE x2

\* _toVal that forgets the handle's width (uses the whole box)
_toValWholeBox(s, x, center) ==
    LET v0 == RDiv(x, s.box_width)
        v1 == RMul(v0, RInt(IMax(1, s.val_max - s.val_min)))
        v2 == RAdd(v1, RInt(s.val_min))
    IN  PyRound(v2)

\* VideoSlider._toVal; x is a rational, _sliderWidth(s) # 0.  The center
\* argument is accepted and never read, as in the source.
_toVal(s, x, center) ==
    LET v0 == RDiv(x, _sliderWidth(s))
        v1 == RMul(v0, RInt(IMax(1, s.val_max - s.val_min)))
        v2 == RAdd(v1, RInt(s.val_min))
    IN  PyRound(v2)

\* x / 0.0 in _toVal raises ZeroDivisionError
ToValFails(s) == RIsZero(_sliderWidth(s))

\* VideoSlider.slider_visible_value_range
slider_visible_value_range(s) == _toVal(s, RInt(s.width - 1), FALSE)

\* VideoSlider.value_range
value_range(s) == s.val_max - s.val_min

(***************************************************************************)
(* Selection endpoints.                                                    *)
(***************************************************************************)
\* VideoSlider.clearSelection
clearSelection(s) == [s EXCEPT !.selection = <<>>]

\* startSelection that wipes a recorded pair before appending
startSelectionWiping(s, val) ==
    [s EXCEPT !.selection = IF Len(@) >= 2 THEN <<val>> ELSE Append(@, val)]

\* VideoSlider.startSelection
startSelection(s, val) == [s EXCEPT !.selection = Append(@, val)]

\* VideoSlider.getSelection
getSelection(s) ==
    LET n == Len(s.selection)
        a == IF n % 2 = 0 /\ n > 0 THEN s.selection[n - 1] ELSE 0
        b == IF n % 2 = 0 /\ n > 0 THEN s.selection[n] ELSE 0
    IN  <<IMin(a, b), IMax(a, b)>>

\* VideoSlider.hasSelection
hasSelection(s) == getSelection(s)[1] < getSelection(s)[2]

\* endSelection that never drops the previous second endpoint
endSelectionNoPop(s, val, update) ==
    LET s2 == [s EXCEPT !.selection = Append(@, val)]
        n == Len(s2.selection)
    IN  IF n < 2 THEN Raise(s2, "ValueError")
        ELSE LET s3 == IF s2.selection[n - 1] = s2.selection[n]
                       THEN clearSelection(s2) ELSE s2
             IN  Emit(s3, Sig("selectionChanged", getSelection(s3)[1],
                                  getSelection(s3)[2]))

\* VideoSlider.endSelection
\*   list.pop() on an empty list raises IndexError;
\*   `a, b = self._selection[-2:]` with one element raises ValueError
endSelection(s, val, update) ==
    IF update /\ Len(s.selection) % 2 = 0 /\ Len(s.selection) = 0
    THEN Raise(s, "IndexError")
    ELSE
    LET s1 == IF update /\ Len(s.selection) % 2 = 0
              THEN [s EXCEPT !.selection = SubSeq(@, 1, Len(@) - 1)] ELSE s
        s2 == [s1 EXCEPT !.selection = Append(@, val)]
        n == Len(s2.selection)
    IN  IF n < 2 THEN Raise(s2, "ValueError")
        ELSE LET s3 == IF s2.selection[n - 1] = s2.selection[n]
                       THEN clearSelection(s2) ELSE s2
             IN  Emit(s3, Sig("selectionChanged", getSelection(s3)[1],
                                  getSelection(s3)[2]))

\* VideoSlider.setSelection
setSelection(s, start_val, end_val) ==
    endSelection(startSelection(s, start_val), end_val, TRUE)

(***************************************************************************)
(* Marks.                                                                  *)
(***************************************************************************)
\* a SliderMark object; id stands for the object's identity (cmp=False)
SliderMark(id, type, val, end_val) ==
    [id |-> id, type |-> type, val |-> val, end_val |-> end_val]

Ids(S) == {m.id : m \in S}
SeqRange(q) == {q[i] : i \in 1..Len(q)}

\* identities of the mark objects the slider references
Live(s) == Ids(s.marks) \cup Ids(SeqRange(s.tick_marks))
              \cup s.mark_items \cup s.mark_labels

\* identity of a newly constructed object: none of the live ones
NewId(live) ==
    CHOOSE i \in 0..Cardinality(live) :
        i \notin live /\ \A j \in 0..(i - 1) : j \in live

\* VideoSlider.clearMarks
clearMarks(s) ==
    [s EXCEPT !.marks = {}, !.mark_items = {}, !.mark_labels = {}]

\* VideoSlider.getMarks
getMarks(s, type) ==
    IF type # "" THEN {m \in s.marks : m.type = type} ELSE s.marks

\* addMark without the range check
addMarkUnchecked(s, new_mark, update) ==
    [s EXCEPT !.marks = @ \cup {new_mark},
              !.mark_items = @ \cup {new_mark.id},
              !.mark_labels = IF new_mark.type = "tick"
                              THEN @ \cup {new_mark.id} ELSE @]

\* VideoSlider.addMark
addMark(s, new_mark, update) ==
    IF new_mark.val > s.val_max THEN s
    ELSE IF new_mark.val < s.val_min THEN s
    ELSE [s EXCEPT !.marks = @ \cup {new_mark},
                   !.mark_items = @ \cup {new_mark.id},
                   !.mark_labels = IF new_mark.type = "tick"
                                   THEN @ \cup {new_mark.id} ELSE @]

\* VideoSlider.removeMark
removeMark(s, mark) ==
    [s EXCEPT !.mark_labels = @ \ {mark.id},
              !.mark_items = @ \ {mark.id},
              !.marks = @ \ {mark}]

\* the loop of _clear_tick_marks
RECURSIVE removeEach(_, _, _)
removeEach(s, q, i) ==
    IF i > Len(q) THEN s ELSE removeEach(removeMark(s, q[i]), q, i + 1)

\* VideoSlider._clear_tick_marks
_clear_tick_marks(s) == removeEach(s, s.tick_marks, 1)

\* `while val_range // val_order > 24: val_order *= 10`
RECURSIVE TickOrder(_, _)
TickOrder(val_range, val_order) ==
    IF val_range \div val_order > 24
    THEN TickOrder(val_range, val_order * 10) ELSE val_order

\* range(start, stop, step) as a sequence, step > 0
PyRange(start, stop, step) ==
    LET n == IF stop > start THEN (stop - start + step - 1) \div step ELSE 0
    IN  [k \in 1..n |-> start + (k - 1) * step]

\* the tick objects built by _add_tick_marks, held being the identities of
\* objects the caller still references
RECURSIVE NewTicks(_, _, _, _)
NewTicks(pos, i, live, acc) ==
    IF i > Len(pos) THEN acc
    ELSE LET id == NewId(live)
         IN  NewTicks(pos, i + 1, live \cup {id},
                      Append(acc, SliderMark(id, "tick", pos[i], None)))

RECURSIVE addEachTick(_, _, _)
addEachTick(s, q, i) ==
    IF i > Len(q) THEN s ELSE addEachTick(addMark(s, q[i], FALSE), q, i + 1)

\* VideoSlider._add_tick_marks
_add_tick_marks(s, held) ==
    IF ToValFails(s) THEN Raise(s, "ZeroDivisionError")
    ELSE
    LET val_range == slider_visible_value_range(s)
        val_order == TickOrder(val_range, 10)
        pos == PyRange(s.val_min + val_order - 1, s.val_max, val_order)
        s1 == [s EXCEPT !.tick_marks = <<>>]
        ticks == NewTicks(pos, 1, Live(s1) \cup held, <<>>)
        s2 == [s1 EXCEPT !.tick_marks = ticks]
    IN  addEachTick(s2, ticks, 1)

\* VideoSlider.setTickMarks
setTickMarks(s) == _add_tick_marks(_clear_tick_marks(s), {})

\* the loop of setMarks: an element that is no SliderMark (type "int")
\* becomes SliderMark("simple", element)
RECURSIVE addEachMark(_, _, _, _)
addEachMark(s, coll, i, held) ==
    IF i > Len(coll) THEN s
    ELSE LET mark == IF coll[i].type = "int"
                     THEN SliderMark(NewId(Live(s) \cup held), "simple",
                                     coll[i].val, None)
                     ELSE coll[i]
         IN  addEachMark(addMark(s, mark, FALSE), coll, i + 1, held)

\* setMarks that does not clear the marks it replaces
setMarksKeepingOld(s, coll) ==
    LET held == {coll[i].id : i \in {j \in 1..Len(coll) : coll[j].type # "int"}}
        s1 == _add_tick_marks(s, held)
    IN  IF s1.raised # "none" THEN s1
        ELSE addEachMark(s1, coll, 1, held)

\* VideoSlider.setMarks; coll is the sequence the iterable yields (None is
\* modelled as the empty sequence)
setMarks(s, coll) ==
    LET held == {coll[i].id : i \in {j \in 1..Len(coll) : coll[j].type # "int"}}
        s1 == _add_tick_marks(clearMarks(s), held)
    IN  IF s1.raised # "none" THEN s1
        ELSE addEachMark(s1, coll, 1, held)

\* a set in some iteration order
RECURSIVE SetToSeq(_)
SetToSeq(S) ==
    IF S = {} THEN <<>>
    ELSE LET m == CHOOSE x \in S : \A y \in S : x.id <= y.id
         IN  <<m>> \o SetToSeq(S \ {m})

\* VideoSlider.resizeEvent (event.size().width() = self.width())
resizeEvent(s) ==
    LET drawn_width == RMul(RInt(s.width - 1), s.zoom_factor)
        s1 == [s EXCEPT !.box_width = RSub(drawn_width, RInt(1))]
    IN  setTickMarks(s1)

\* VideoSlider.updateHeight, as called by setTracks, setHeaderSeries and
\* clearHeader
updateHeight(s) ==
    LET old == getMarks(s, "")
        s1 == setMarks(s, SetToSeq(old))
        s2 == IF s1.raised # "none" THEN s1 ELSE resizeEvent(s1)
    IN  IF s2.raised # "none" THEN s2
        ELSE Emit(s2, Sig("heightUpdated", 0, 0))

(***************************************************************************)
(* Value and range.                                                        *)
(***************************************************************************)
\* VideoSlider.setValue (the handle's position is visual)
setValue(s, val) == [s EXCEPT !.val_main = val]

\* VideoSlider.setMinimum
setMinimum(s, min) == [s EXCEPT !.val_min = min]

\* VideoSlider.setMaximum
setMaximum(s, max) == [s EXCEPT !.val_max = max]

\* `marks_in_handle.sort(key=lambda m: (abs(m - val), m > val))`, element 0
\* the marks sorted by distance alone, the higher of two equally near first
NearestMarkHigher(in_handle, val) ==
    CHOOSE m \in in_handle : \A o \in in_handle :
        \/ Abs(m - val) < Abs(o - val)
        \/ Abs(m - val) = Abs(o - val) /\ m >= o

\* marks_in_handle.sort(key=lambda m: (abs(m - val), m > val))[0]
NearestMark(in_handle, val) ==
    CHOOSE m \in in_handle : \A o \in in_handle :
        \/ Abs(m - val) < Abs(o - val)
        \/ Abs(m - val) = Abs(o - val) /\ (m > val => o > val)

\* VideoSlider.moveHandle; x is the pointer's x position
moveHandle(s, x) ==
    IF ToValFails(s) THEN Raise(s, "ZeroDivisionError")
    ELSE
    LET half == Rat(handle_width, 2)
        x1 == RSub(x, half)
        x2 == RMax(x1, RInt(0))
        x3 == RMin(x2, RSub(s.box_width, RInt(handle_width)))
        val == _toVal(s, x3, FALSE)
        handle_left == _toVal(s, RSub(x3, half), FALSE)
        handle_right == _toVal(s, RAdd(x3, half), FALSE)
        marks_in_handle == {m.val : m \in {k \in s.marks :
                                handle_left < k.val /\ k.val < handle_right}}
        val2 == IF marks_in_handle # {}
                THEN NearestMark(marks_in_handle, val) ELSE val
        old == s.val_main
        s1 == setValue(s, val2)
    IN  IF old # val2 THEN Emit(s1, Sig("valueChanged", val2, 0)) ELSE s1

(***************************************************************************)
(* Contiguous-range expansion.                                             *)
(***************************************************************************)
MarkVals(s) == {m.val : m \in s.marks}
SetMin(S) == CHOOSE x \in S : \A y \in S : x <= y
SetMax(S) == CHOOSE x \in S : \A y \in S : x >= y

\* VideoSlider.isMarkedVal
isMarkedVal(s, val) ==
    \/ val \in MarkVals(s)
    \/ \E m \in s.marks : m.type = "track" /\ m.val <= val /\ val < m.end_val

\* VideoSlider.decrementContiguousMarkedVal
decrementContiguousMarkedVal(s, val) ==
    LET starts == {m.val : m \in {k \in s.marks :
                     k.type = "track" /\ k.val < val /\ val <= k.end_val}}
        dec_val == IF starts = {} THEN val ELSE SetMin(starts)
    IN  IF dec_val < val THEN dec_val
        ELSE IF (val - 1) \in MarkVals(s) THEN val - 1
        ELSE val

\* incrementContiguousMarkedVal returning the exclusive end of the track
incrementToEndVal(s, val) ==
    LET ends == {m.end_val : m \in {k \in s.marks :
                     k.type = "track" /\ k.val <= val /\ val < k.end_val}}
        inc_val == IF ends = {} THEN val ELSE SetMax(ends)
    IN  IF inc_val > val THEN inc_val
        ELSE IF (val + 1) \in MarkVals(s) THEN val + 1
        ELSE val

\* incrementContiguousMarkedVal that advances one marked value at a time
incrementStepwise(s, val) ==
    IF isMarkedVal(s, val + 1) THEN val + 1 ELSE val

\* VideoSlider.incrementContiguousMarkedVal
incrementContiguousMarkedVal(s, val) ==
    LET ends == {m.end_val - 1 : m \in {k \in s.marks :
                     k.type = "track" /\ k.val <= val /\ val < k.end_val}}
        inc_val == IF ends = {} THEN val ELSE SetMax(ends)
    IN  IF inc_val > val THEN inc_val
        ELSE IF (val + 1) \in MarkVals(s) THEN val + 1
        ELSE val

\* the while loop of getStartContiguousMark
RECURSIVE StartLoop(_, _, _)
StartLoop(s, last_val, dec_val) ==
    IF dec_val < last_val /\ dec_val > s.val_min
    THEN StartLoop(s, dec_val, decrementContiguousMarkedVal(s, dec_val))
    ELSE dec_val

\* VideoSlider.getStartContiguousMark
getStartContiguousMark(s, val) ==
    StartLoop(s, val, decrementContiguousMarkedVal(s, val))

\* the while loop of getEndContiguousMark
RECURSIVE EndLoop(_, _, _)
EndLoop(s, last_val, inc_val) ==
    IF inc_val > last_val /\ inc_val < s.val_max
    THEN EndLoop(s, inc_val, incrementContiguousMarkedVal(s, inc_val))
    ELSE inc_val

\* VideoSlider.getEndContiguousMark
getEndContiguousMark(s, val) ==
    EndLoop(s, val, incrementContiguousMarkedVal(s, val))

\* the boundary values the while loop of getStartContiguousMark re-scans
\* from, one per iteration of the loop
RECURSIVE StartRescans(_, _, _)
StartRescans(s, last_val, dec_val) ==
    IF dec_val < last_val /\ dec_val > s.val_min
    THEN <<dec_val>>
             \o StartRescans(s, dec_val, decrementContiguousMarkedVal(s, dec_val))
    ELSE <<>>

\* the same for the while loop of getEndContiguousMark
RECURSIVE EndRescans(_, _, _)
EndRescans(s, last_val, inc_val) ==
    IF inc_val > last_val /\ inc_val < s.val_max
    THEN <<inc_val>>
             \o EndRescans(s, inc_val, incrementContiguousMarkedVal(s, inc_val))
    ELSE <<>>

\* VideoSlider.contiguousSelectionMarksAroundVal
contiguousSelectionMarksAroundVal(s, val) ==
    IF ~isMarkedVal(s, val) THEN s
    ELSE setSelection(s, getStartContiguousMark(s, val),
                      getEndContiguousMark(s, val))

(***************************************************************************)
(* Zoom viewport.                                                          *)
(***************************************************************************)
\* self._zoom_start_val: attr is whether the attribute exists, some whether
\* it holds a number rather than None
ZoomUnset == [attr |-> FALSE, some |-> FALSE, val |-> 0]
ZoomNone == [attr |-> TRUE, some |-> FALSE, val |-> 0]
ZoomAt(v) == [attr |-> TRUE, some |-> TRUE, val |-> v]

\* VideoSlider.setZoomRange; start_val and end_val are rationals
setZoomRange(s, start_val, end_val) ==
    LET zoom_val_range == RSub(end_val, start_val)
        z == IF RLess(RInt(0), zoom_val_range)
             THEN RDiv(RInt(value_range(s)), zoom_val_range)
             ELSE RInt(1)
    IN  resizeEvent([s EXCEPT !.zoom_factor = z])

\* VideoSlider.moveZoomDrag
moveZoomDrag(s, x) ==
    IF ToValFails(s) THEN Raise(s, "ZeroDivisionError")
    ELSE IF ~(s.zoom_start_val.attr /\ s.zoom_start_val.some)
         THEN [s EXCEPT !.zoom_start_val = ZoomAt(_toVal(s, x, TRUE))]
         ELSE s

\* VideoSlider.releaseZoomDrag
releaseZoomDrag(s, x) ==
    IF ~s.zoom_start_val.attr THEN Raise(s, "AttributeError")
    ELSE IF ToValFails(s) THEN Raise(s, "ZeroDivisionError")
    ELSE IF ~s.zoom_start_val.some THEN Raise(s, "TypeError")
    ELSE
    LET val_a == s.zoom_start_val.val
        val_b == _toVal(s, x, TRUE)
        val_start == IMin(val_a, val_b)
        val_end == IMax(val_a, val_b)
        val_range == val_end - val_start
        pad == RMul(RInt(val_range), Rat(5, 100))
        s1 == setZoomRange(s, RSub(RInt(val_start), pad),
                           RAdd(RInt(val_end), pad))
    IN  IF s1.raised # "none" THEN s1
        ELSE [s1 EXCEPT !.zoom_start_val = ZoomNone]

(***************************************************************************)
(* Pointer gestures.                                                       *)
(***************************************************************************)
\* `x = max(x, 0); x = min(x, self.getBoxRect().width())`
ClampToBox(s, x) == RMin(RMax(x, RInt(0)), s.box_width)

\* VideoSlider.moveSelectionAnchor
moveSelectionAnchor(s, x) ==
    IF ToValFails(s) THEN Raise(s, "ZeroDivisionError")
    ELSE LET anchor_val == _toVal(s, ClampToBox(s, x), TRUE)
         IN  IF Len(s.selection) % 2 = 0
             THEN startSelection(s, anchor_val) ELSE s

\* VideoSlider.releaseSelectionAnchor
releaseSelectionAnchor(s, x) ==
    IF ToValFails(s) THEN Raise(s, "ZeroDivisionError")
    ELSE endSelection(s, _toVal(s, ClampToBox(s, x), FALSE), FALSE)

\* a slot called by a signal emission: an exception it raises is reported
\* by the binding and the emission goes on with the next slot
Slot(r) ==
    IF r.raised # "none"
    THEN [r EXCEPT !.raised = "none", !.logged = Append(@, r.raised)]
    ELSE r

\* the drag behaviours a press can wire to mouseMoved
CallMove(s, f, x) ==
    CASE f = "moveHandle" -> moveHandle(s, x)
      [] f = "moveSelectionAnchor" -> moveSelectionAnchor(s, x)
      [] f = "moveZoomDrag" -> moveZoomDrag(s, x)

\* the release functions a press can capture in `done`
CallRelease(s, f, x) ==
    CASE f = "releaseSelectionAnchor" -> releaseSelectionAnchor(s, x)
      [] f = "releaseZoomDrag" -> releaseZoomDrag(s, x)

\* self.mouseMoved.emit(x, y): every connected slot, in connection order
RECURSIVE RunMoveSlots(_, _, _, _)
RunMoveSlots(s, conns, i, x) ==
    IF i > Len(conns) THEN s
    ELSE RunMoveSlots(Slot(CallMove(s, conns[i], x)), conns, i + 1, x)

EmitMouseMoved(s, x) ==
    RunMoveSlots(Emit(s, Sig("mouseMoved", x[1], x[2])), s.moveConns, 1, x)

\* q without its first element equal to e
RemoveOne(q, e) ==
    LET i == CHOOSE k \in 1..Len(q) : q[k] = e /\ \A j \in 1..(k - 1) : q[j] # e
    IN  SubSeq(q, 1, i - 1) \o SubSeq(q, i + 1, Len(q))

\* signal.disconnect(slot): removes one connection of slot, RuntimeError
\* when there is none
DisconnectMove(s, f) ==
    IF f \notin SeqRange(s.moveConns) THEN Raise(s, "RuntimeError")
    ELSE [s EXCEPT !.moveConns = RemoveOne(@, f)]

\* the closure `done` of mousePressEvent; d holds its captured
\* move_function and release_function ("" for None)
done(s, d, x) ==
    LET s1 == IF d.release # "" THEN CallRelease(s, d.release, x) ELSE s
        s2 == IF s1.raised # "none" THEN s1
              ELSE IF d.move # "" THEN DisconnectMove(s1, d.move) ELSE s1
    IN  IF s2.raised # "none" THEN s2
        ELSE [s2 EXCEPT !.releaseConns = RemoveOne(@, d)]

\* self.mouseReleased.emit(x, y): the closures connected when it starts
RECURSIVE RunReleaseSlots(_, _, _, _)
RunReleaseSlots(s, conns, i, x) ==
    IF i > Len(conns) THEN s
    ELSE RunReleaseSlots(Slot(done(s, conns[i], x)), conns, i + 1, x)

\* the modifier's drag mode: <<move_function, release_function>>
DragMode(mod) ==
    CASE mod = "shift" -> <<"moveSelectionAnchor", "releaseSelectionAnchor">>
      [] mod = "none" -> <<"moveHandle", "">>
      [] mod = "alt" -> <<"moveZoomDrag", "releaseZoomDrag">>
      [] OTHER -> <<"", "">>

\* VideoSlider.mousePressEvent; mod is event.modifiers(), x the scene x
\* position, y_inside whether the scene y position is within the box
mousePressEvent(s, mod, x, y_inside) ==
    IF ~s.enabled THEN s
    ELSE IF ~(y_inside /\ ~RLess(x, RInt(0)) /\ ~RLess(s.box_width, x)) THEN s
    ELSE
    LET mode == DragMode(mod)
        s1 == IF mod = "shift" THEN clearSelection(s) ELSE s
        s2 == IF mode[1] # ""
              THEN [s1 EXCEPT !.moveConns = Append(@, mode[1])] ELSE s1
        d == [id |-> NewId({c.id : c \in SeqRange(s.releaseConns)}),
              move |-> mode[1], release |-> mode[2]]
        s3 == [s2 EXCEPT !.releaseConns = Append(@, d)]
        s4 == EmitMouseMoved(s3, x)
    IN  Emit(s4, Sig("mousePressed", x[1], x[2]))

\* VideoSlider.mouseMoveEvent
mouseMoveEvent(s, x) == EmitMouseMoved(s, x)

\* VideoSlider.mouseReleaseEvent
mouseReleaseEvent(s, x) ==
    RunReleaseSlots(Emit(s, Sig("mouseReleased", x[1], x[2])),
                    s.releaseConns, 1, x)

\* VideoSlider.mouseDoubleClickEvent
mouseDoubleClickEvent(s, mod, x, y_inside) ==
    IF ~s.enabled THEN s
    ELSE IF ~(y_inside /\ ~RLess(x, RInt(0)) /\ ~RLess(s.box_width, x)) THEN s
    ELSE IF mod # "shift" THEN s
    ELSE IF ToValFails(s) THEN Raise(s, "ZeroDivisionError")
    ELSE contiguousSelectionMarksAroundVal(s, _toVal(s, x, FALSE))

(***************************************************************************)
(* Track rows stacked in columns.                                          *)
(***************************************************************************)
\* self._track_height = 5
_track_height == 5
\* self._max_tracks_stacked = 120
_max_tracks_stacked == 120
\* self._track_stack_skip_count = 10
_track_stack_skip_count == 10

\* getTrackColRow with later columns as tall as the first one
getTrackColRowNoSkip(raw_row) ==
    IF raw_row < _max_tracks_stacked THEN <<0, raw_row>>
    ELSE LET rows_after_first_col == raw_row - _max_tracks_stacked
             rows_per_later_cols == _max_tracks_stacked
         IN  <<(rows_after_first_col \div rows_per_later_cols) + 1,
               rows_after_first_col % rows_per_later_cols>>

\* VideoSlider.getTrackColRow: <<col, rows_down>>
getTrackColRow(raw_row) ==
    IF raw_row < _max_tracks_stacked THEN <<0, raw_row>>
    ELSE LET rows_after_first_col == raw_row - _max_tracks_stacked
             rows_per_later_cols ==
                 _max_tracks_stacked - _track_stack_skip_count
             rows_down == rows_after_first_col % rows_per_later_cols
             col == (rows_after_first_col \div rows_per_later_cols) + 1
         IN  <<col, rows_down>>

\* VideoSlider.getTrackVerticalPos
getTrackVerticalPos(col, row) ==
    IF col = 0 THEN row * _track_height
    ELSE (_track_height * _track_stack_skip_count) + (_track_height * row)

\* VideoSlider.isNewColTrack
isNewColTrack(row) == getTrackColRow(row)[2] = 0

(***************************************************************************)
(* sleap/nn/data/resizing.py: padding to a stride.  An image tensor is     *)
(* modelled by its shape <<height, width, channels>>.                      *)
(***************************************************************************)
\* find_padding_for_stride without the outer modulo
find_padding_no_wrap(image_height, image_width, max_stride) ==
    <<max_stride - (image_height % max_stride),
      max_stride - (image_width % max_stride)>>

\* find_padding_for_stride: <<pad_bottom, pad_right>>
find_padding_for_stride(image_height, image_width, max_stride) ==
    LET pad_bottom == (max_stride - (image_height % max_stride)) % max_stride
        pad_right == (max_stride - (image_width % max_stride)) % max_stride
    IN  <<pad_bottom, pad_right>>

\* pad_to_stride: the shape after tf.pad with [[0, pad_bottom],
\* [0, pad_right], [0, 0]]
pad_to_stride(image, max_stride) ==
    LET pad == find_padding_for_stride(image[1], image[2], max_stride)
    IN  IF pad[1] > 0 \/ pad[2] > 0
        THEN <<image[1] + pad[1], image[2] + pad[2], image[3]>>
        ELSE image

(***************************************************************************)
(* sleap/nn/data/resizing.py: scaling, and the Resizer transform.  A       *)
(* result is [image |-> shape, raised |-> exception name or "none"].       *)
(***************************************************************************)
\* tf.cast(tf.cast(n, tf.float32) * tf.cast(scale, tf.float32), tf.int32):
\* the product truncated toward zero.  scale is a rational whose float32
\* value is exact (a dyadic fraction), so the float32 product is exact too.
ScaledDim(n, scale) ==
    LET q == RMul(RInt(n), scale)
    IN  IF q[1] >= 0 THEN q[1] \div q[2] ELSE -((-q[1]) \div q[2])

\* resize_image; tf.image.resize rejects an empty input and a size that is
\* not positive with InvalidArgumentError
resize_image(image, scale) ==
    LET image_height == image[1]
        image_width == image[2]
        new_size == <<ScaledDim(image_height, scale),
                      ScaledDim(image_width, scale)>>
    IN  IF \/ image_height <= 0 \/ image_width <= 0
           \/ new_size[1] <= 0 \/ new_size[2] <= 0
        THEN [image |-> image, raised |-> "InvalidArgumentError"]
        ELSE [image |-> <<new_size[1], new_size[2], image[3]>>,
              raised |-> "none"]

\* the mapping function that pads before it scales
resizePadFirst(self, example) ==
    LET e1 == IF self.pad_to_stride > 1
              THEN pad_to_stride(example, self.pad_to_stride) ELSE example
    IN  IF self.scale # RInt(1) THEN resize_image(e1, self.scale)
        ELSE [image |-> e1, raised |-> "none"]

\* the closure `resize` of Resizer.transform_dataset, which the dataset
\* maps over every example; self is [scale, pad_to_stride], example the
\* image under self.image_key
resize(self, example) ==
    LET r1 == IF self.scale # RInt(1) THEN resize_image(example, self.scale)
              ELSE [image |-> example, raised |-> "none"]
    IN  IF r1.raised # "none" THEN r1
        ELSE IF self.pad_to_stride > 1
             THEN [image |-> pad_to_stride(r1.image, self.pad_to_stride),
                   raised |-> "none"]
             ELSE r1

(***************************************************************************)
(* Construction.                                                           *)
(***************************************************************************)
\* an element of an iterable handed to setMarks that is a bare number
IntItem(v) == [id |-> None, type |-> "int", val |-> v, end_val |-> None]

NoPrev == [op |-> "", a |-> 0, flag |-> FALSE, sel0 |-> <<>>]
NoOp == [op |-> "__init__", a |-> 0, b |-> 0, flag |-> FALSE, mod |-> "",
         sel0 |-> <<>>, coll |-> <<>>, prev |-> NoPrev]
NoConv == [val |-> 0, center |-> FALSE, pos |-> <<0, 1>>, back |-> 0]
NoRet == [fn |-> "", args |-> <<>>, out |-> <<>>]

\* VideoSlider.__init__(min, max, val, marks) in a widget w pixels wide
Constructed(min, max, val, coll, w) ==
    LET s0 == [val_min |-> min, val_max |-> max, val_main |-> val,
               zoom_factor |-> RInt(1), width |-> w,
               box_width |-> RInt(init_box_width - 1),
               enabled |-> TRUE, selection |-> <<>>, marks |-> {},
               mark_items |-> {}, mark_labels |-> {}, tick_marks |-> <<>>,
               zoom_start_val |-> ZoomUnset,
               moveConns |-> <<>>, releaseConns |-> <<>>,
               emitted |-> <<>>, raised |-> "none", logged |-> <<>>]
    IN  setMarks(s0, coll)

InitWith(s, r) ==
    /\ val_min = s.val_min
    /\ val_max = s.val_max
    /\ val_main = s.val_main
    /\ zoom_factor = s.zoom_factor
    /\ width = s.width
    /\ box_width = s.box_width
    /\ enabled = s.enabled
    /\ selection = s.selection
    /\ marks = s.marks
    /\ mark_items = s.mark_items
    /\ mark_labels = s.mark_labels
    /\ tick_marks = s.tick_marks
    /\ zoom_start_val = s.zoom_start_val
    /\ moveConns = s.moveConns
    /\ releaseConns = s.releaseConns
    /\ emitted = s.emitted
    /\ raised = s.raised
    /\ logged = s.logged
    /\ lastOp = NoOp
    /\ conv = NoConv
    /\ ret = r

\* the state after construction, no query made yet
InitAs(s) == InitWith(s, NoRet)

\* what an operation records about itself: its name and arguments
Did(name, a, b, flag, mod) ==
    lastOp' = [op |-> name, a |-> a, b |-> b, flag |-> flag, mod |-> mod,
               sel0 |-> <<>>, coll |-> <<>>, prev |-> NoPrev]

\* the same, with the endpoint sequence the operation started from
DidSel(name, a, b, flag, mod) ==
    lastOp' = [op |-> name, a |-> a, b |-> b, flag |-> flag, mod |-> mod,
               sel0 |-> selection, coll |-> <<>>, prev |-> NoPrev]

\* the same for setMarks, keeping the sequence it was handed
DidSetMarks(coll) ==
    lastOp' = [op |-> "setMarks", a |-> Len(coll), b |-> 0, flag |-> FALSE,
               mod |-> "", sel0 |-> <<>>, coll |-> coll,
               prev |-> NoPrev]

\* the same, also keeping the record of the operation before it
DidAfter(name, a, b, flag, mod) ==
    lastOp' = [op |-> name, a |-> a, b |-> b, flag |-> flag, mod |-> mod,
               sel0 |-> selection, coll |-> <<>>,
               prev |-> [op |-> lastOp.op, a |-> lastOp.a,
                         flag |-> lastOp.flag, sel0 |-> lastOp.sel0]]

(***************************************************************************)
(* Inputs the operations are driven with.                                  *)
(***************************************************************************)
\* widget widths in pixels
Widths == {8, 28}
\* endpoint values
SelVals == {3, 5, 10}
\* pointer x positions in pixels
Xs == {7, 30}
Mods == {"none", "shift", "alt", "ctrl"}

(***************************************************************************)
(* Operations on the selection.                                            *)
(***************************************************************************)
StartSelection ==
    \E v \in SelVals :
        /\ Len(selection) < MaxSel
        /\ Commit(startSelection(Cur, v))
        /\ DidSel("startSelection", v, 0, FALSE, "")
        /\ UNCHANGED <<conv, ret>>

EndSelection ==
    \E v \in SelVals, update \in BOOLEAN :
        /\ Len(selection) < MaxSel
        /\ Commit(endSelection(Cur, v, update))
        /\ DidAfter("endSelection", v, 0, update, "")
        /\ UNCHANGED <<conv, ret>>

SetSelection ==
    \E a \in SelVals, b \in SelVals :
        /\ Len(selection) + 2 <= MaxSel
        /\ Commit(setSelection(Cur, a, b))
        /\ DidSel("setSelection", a, b, FALSE, "")
        /\ UNCHANGED <<conv, ret>>

ClearSelection ==
    /\ Commit(clearSelection(Cur))
    /\ DidSel("clearSelection", 0, 0, FALSE, "")
    /\ UNCHANGED <<conv, ret>>

InitSel == InitAs(Constructed(0, 20, 0, <<>>, 28))

NextSel ==
    \/ StartSelection
    \/ EndSelection
    \/ SetSelection
    \/ ClearSelection

SpecSel == InitSel /\ [][NextSel]_vars

(***************************************************************************)
(* Operations on the mark set.                                             *)
(***************************************************************************)
\* SliderMark objects and bare numbers a caller hands over, before the
\* objects get their identity
SimpleT(v) == [id |-> None, type |-> "simple", val |-> v, end_val |-> None]
TrackT(v, e) == [id |-> None, type |-> "track", val |-> v, end_val |-> e]

\* the caller's objects: each SliderMark of coll is a new object, distinct
\* from the live ones
RECURSIVE Construct(_, _, _)
Construct(coll, i, live) ==
    IF i > Len(coll) THEN <<>>
    ELSE IF coll[i].type = "int"
         THEN <<coll[i]>> \o Construct(coll, i + 1, live)
         ELSE LET id == NewId(live)
              IN  <<[coll[i] EXCEPT !.id = id]>>
                      \o Construct(coll, i + 1, live \cup {id})

\* iterables handed to setMarks
MarkInputs ==
    { <<>>,
      <<IntItem(10), IntItem(15)>>,
      <<IntItem(10), IntItem(10)>>,
      <<IntItem(14), IntItem(25)>>,
      <<TrackT(11, 14)>> }

\* marks handed to addMark
AddInputs ==
    { SimpleT(-1), SimpleT(10), SimpleT(21), TrackT(21, 23) }

SetMarks ==
    \E coll \in MarkInputs :
        LET objs == Construct(coll, 1, Live(Cur))
        IN  /\ Commit(setMarks(Cur, objs))
            /\ DidSetMarks(objs)
        /\ UNCHANGED <<conv, ret>>

AddMark ==
    \E t \in AddInputs :
        /\ Cardinality(marks) < MaxMarks
        /\ Commit(addMark(Cur, [t EXCEPT !.id = NewId(Live(Cur))], TRUE))
        /\ Did("addMark", t.val, 0, TRUE, t.type)
        /\ UNCHANGED <<conv, ret>>

RemoveMark ==
    \E m \in marks :
        /\ Commit(removeMark(Cur, m))
        /\ Did("removeMark", m.val, 0, FALSE, m.type)
        /\ UNCHANGED <<conv, ret>>

\* setTracks, setHeaderSeries or clearHeader: each ends in updateHeight
UpdateHeight ==
    /\ Cardinality(marks) + Len(tick_marks) <= MaxMarks
    /\ Commit(updateHeight(Cur))
    /\ Did("updateHeight", 0, 0, FALSE, "")
    /\ UNCHANGED <<conv, ret>>

\* Qt resizes the widget to w pixels and delivers the resize event
Resize ==
    \E w \in Widths :
        /\ Commit(resizeEvent([Cur EXCEPT !.width = w]))
        /\ Did("resizeEvent", w, 0, FALSE, "")
        /\ UNCHANGED <<conv, ret>>

InitMarks ==
    \E w \in Widths : InitAs(Constructed(0, 20, 0, <<>>, w))

NextMarks ==
    \/ SetMarks
    \/ AddMark
    \/ RemoveMark
    \/ UpdateHeight
    \/ Resize

SpecMarks == InitMarks /\ [][NextMarks]_vars

(***************************************************************************)
(* Contiguous selection around a value.                                    *)
(***************************************************************************)
\* marks the slider is constructed with
ContigInputs ==
    { <<TrackT(11, 14)>>,
      <<TrackT(10, 13), SimpleT(15)>>,
      <<TrackT(11, 14), SimpleT(14)>>,
      <<TrackT(12, 13)>>,
      <<TrackT(3, 6), TrackT(5, 8)>>,
      <<TrackT(17, 20)>>,
      <<IntItem(10), IntItem(11)>> }

Contiguous ==
    \E v \in 0..MaxVal :
        /\ Len(selection) + 2 <= MaxSel
        /\ Commit(contiguousSelectionMarksAroundVal(Cur, v))
        /\ DidSel("contiguousSelectionMarksAroundVal", v, 0, FALSE, "")
        /\ UNCHANGED <<conv, ret>>

InitContig ==
    \E coll \in ContigInputs :
        InitAs(Constructed(0, 20, 0, Construct(coll, 1, {}), 28))

NextContig ==
    \/ Contiguous
    \/ StartSelection
    \/ ClearSelection

SpecContig == InitContig /\ [][NextContig]_vars

(***************************************************************************)
(* Pointer events and zooming.                                             *)
(***************************************************************************)
\* values handed to setZoomRange
ZoomVals == {0, 5, 40}

MousePress ==
    \E mod \in Mods, x \in Xs, y_inside \in BOOLEAN :
        /\ Len(releaseConns) < MaxConn
        /\ Commit(mousePressEvent(Cur, mod, RInt(x), y_inside))
        /\ Did("mousePressEvent", x, 0, y_inside, mod)
        /\ UNCHANGED <<conv, ret>>

MouseMove ==
    \E x \in Xs :
        /\ Commit(mouseMoveEvent(Cur, RInt(x)))
        /\ Did("mouseMoveEvent", x, 0, FALSE, "")
        /\ UNCHANGED <<conv, ret>>

MouseRelease ==
    \E x \in Xs :
        /\ Commit(mouseReleaseEvent(Cur, RInt(x)))
        /\ Did("mouseReleaseEvent", x, 0, FALSE, "")
        /\ UNCHANGED <<conv, ret>>

SetZoomRange ==
    \E a \in ZoomVals, b \in ZoomVals :
        /\ Commit(setZoomRange(Cur, RInt(a), RInt(b)))
        /\ Did("setZoomRange", a, b, FALSE, "")
        /\ UNCHANGED <<conv, ret>>

InitPointer == InitAs(Constructed(0, 4, 0, <<IntItem(2)>>, 28))

NextPointer ==
    \/ MousePress
    \/ MouseMove
    \/ MouseRelease

SpecPointer == InitPointer /\ [][NextPointer]_vars

(***************************************************************************)
(* Value and range operations.                                             *)
(***************************************************************************)
\* values handed to setMinimum and setMaximum
RangeVals == {0, 5, 20}
\* pointer x positions handed to moveHandle
HandleXs == {-4, 7, 100, 250}

SetMinimum ==
    \E v \in RangeVals :
        /\ Commit(setMinimum(Cur, v))
        /\ Did("setMinimum", v, 0, FALSE, "")
        /\ UNCHANGED <<conv, ret>>

SetMaximum ==
    \E v \in RangeVals :
        /\ Commit(setMaximum(Cur, v))
        /\ Did("setMaximum", v, 0, FALSE, "")
        /\ UNCHANGED <<conv, ret>>

SetValue ==
    \E v \in 0..MaxVal :
        /\ Commit(setValue(Cur, v))
        /\ Did("setValue", v, 0, FALSE, "")
        /\ UNCHANGED <<conv, ret>>

MoveHandle ==
    \E x \in HandleXs :
        /\ Commit(moveHandle(Cur, RInt(x)))
        /\ Did("moveHandle", x, 0, FALSE, "")
        /\ UNCHANGED <<conv, ret>>

InitValue == InitAs(Constructed(0, 20, 0, <<IntItem(10), IntItem(15)>>, 28))

NextValue ==
    \/ SetMinimum
    \/ SetMaximum
    \/ SetValue
    \/ MoveHandle

SpecValue == InitValue /\ [][NextValue]_vars

(***************************************************************************)
(* Zooming: setZoomRange and the alt-modified drag.                        *)
(***************************************************************************)
\* pointer x positions of the zoom drags
ZoomXs == {0, 20}

\* a press with the alt modifier held, inside the box
ZoomPress ==
    \E x \in ZoomXs :
        /\ Len(releaseConns) < MaxConn
        /\ Commit(mousePressEvent(Cur, "alt", RInt(x), TRUE))
        /\ Did("mousePressEvent", x, 0, TRUE, "alt")
        /\ UNCHANGED <<conv, ret>>

ZoomMove ==
    \E x \in ZoomXs :
        /\ Commit(mouseMoveEvent(Cur, RInt(x)))
        /\ Did("mouseMoveEvent", x, 0, FALSE, "")
        /\ UNCHANGED <<conv, ret>>

ZoomRelease ==
    \E x \in ZoomXs :
        /\ Commit(mouseReleaseEvent(Cur, RInt(x)))
        /\ Did("mouseReleaseEvent", x, 0, FALSE, "")
        /\ UNCHANGED <<conv, ret>>

\* the widget is shown 28 pixels wide: Qt delivers the first resize event
InitZoom == InitAs(resizeEvent(Constructed(0, 20, 0, <<>>, 28)))

NextZoom ==
    \/ SetZoomRange
    \/ ZoomPress
    \/ ZoomMove
    \/ ZoomRelease

SpecZoom == InitZoom /\ [][NextZoom]_vars

(***************************************************************************)
(* The value -> position -> value round trip.                              *)
(***************************************************************************)
\* minimum and maximum the slider is constructed with
ConvMins == {0, 3}
ConvMaxs == {3, MaxVal}

\* _toVal(_toPos(v)) for an integer v in [min, max], center flag off
RoundTrip ==
    \E v \in val_min..val_max :
        /\ RLess(RInt(0), _sliderWidth(Cur))
        /\ conv' = [val |-> v, center |-> FALSE,
                    pos |-> _toPos(Cur, v, FALSE),
                    back |-> _toVal(Cur, _toPos(Cur, v, FALSE), FALSE)]
        /\ Commit(Cur)
        /\ Did("_toVal", v, 0, FALSE, "")
        /\ UNCHANGED ret

\* the same round trip with center=True on both conversions
RoundTripCenter ==
    \E v \in val_min..val_max :
        /\ RLess(RInt(0), _sliderWidth(Cur))
        /\ conv' = [val |-> v, center |-> TRUE,
                    pos |-> _toPos(Cur, v, TRUE),
                    back |-> _toVal(Cur, _toPos(Cur, v, TRUE), TRUE)]
        /\ Commit(Cur)
        /\ Did("_toVal center", v, 0, TRUE, "")
        /\ UNCHANGED ret

InitConv ==
    \E min \in ConvMins, max \in ConvMaxs, w \in Widths :
        InitAs(Constructed(min, max, min, <<>>, w))

NextConv ==
    \/ RoundTrip
    \/ RoundTripCenter
    \/ Resize
    \/ SetZoomRange

SpecConv == InitConv /\ [][NextConv]_vars

(***************************************************************************)
(* Properties of the selection endpoints.                                  *)
(***************************************************************************)
EvenPair(sel) == Len(sel) >= 2 /\ Len(sel) % 2 = 0

\* C2: setSelection(s, e) with s # e, after any sequence of startSelection,
\* endSelection, setSelection and clearSelection calls, is followed by
\* getSelection() = (min(s, e), max(s, e)).
C2_SetSelectionSelectsClip ==
    (lastOp.op = "setSelection" /\ lastOp.a # lastOp.b)
        => getSelection(Cur) = <<IMin(lastOp.a, lastOp.b),
                                 IMax(lastOp.a, lastOp.b)>>

\* C4 as stated: the endpoint sequence never holds more than two endpoints.
C4_AtMostTwoEndpoints == Len(selection) <= 2

\* C4 as amended: the sequence is not limited to two endpoints.  Every
\* startSelection appends one endpoint, also to a recorded pair; no step
\* drops or changes an endpoint before the last one unless it empties the
\* whole sequence.
C4_EndpointsKeptUntilCleared ==
    [][/\ lastOp'.op = "startSelection"
            => selection' = Append(selection, lastOp'.a)
       /\ \/ selection' = <<>>
          \/ /\ Len(selection') >= Len(selection)
             /\ \A i \in 1..(Len(selection) - 1) :
                    selection'[i] = selection[i]]_vars

\* an endpoint was added to a recorded pair, giving three endpoints
C4_Witness ==
    /\ lastOp.op = "startSelection"
    /\ Len(lastOp.sel0) = 2
    /\ Len(selection) = 3

\* the last call was endSelection(v, update=True) on a complete pair
C9_Case ==
    /\ lastOp.op = "endSelection"
    /\ lastOp.flag
    /\ EvenPair(lastOp.sel0)

\* C9 as stated: endSelection(v, update=True) on a complete pair replaces
\* the pair's second endpoint with v, keeps the first endpoint and leaves
\* the endpoint count as it was.
C9_UpdateReplacesSecond ==
    C9_Case =>
        LET n == Len(lastOp.sel0)
        IN  /\ Len(selection) = n
            /\ selection[n] = lastOp.a
            /\ selection[n - 1] = lastOp.sel0[n - 1]

\* C9 as amended: the same when v differs from the pair's first endpoint;
\* when v equals it the call empties the endpoint sequence.  In neither
\* case does the count grow.
C9_UpdateReplacesOrClears ==
    C9_Case =>
        LET n == Len(lastOp.sel0)
        IN  IF lastOp.a = lastOp.sel0[n - 1]
            THEN selection = <<>>
            ELSE /\ Len(selection) = n
                 /\ \A i \in 1..(n - 1) : selection[i] = lastOp.sel0[i]
                 /\ selection[n] = lastOp.a

\* the second of two successive endSelection(v, update=True) calls, each
\* made on a complete pair, has replaced the second endpoint once more
C9_Witness ==
    /\ C9_Case
    /\ lastOp.prev.op = "endSelection"
    /\ lastOp.prev.flag
    /\ EvenPair(lastOp.prev.sel0)
    /\ lastOp.prev.a # lastOp.a
    /\ Len(selection) = Len(lastOp.prev.sel0)
    /\ selection[Len(selection)] = lastOp.a

(***************************************************************************)
(* Properties of the mark set.                                             *)
(***************************************************************************)
\* how many elements of sequence q are of kind t at position v, a bare
\* number counting as a simple mark
CountIn(q, t, v) ==
    Cardinality({i \in 1..Len(q) :
        /\ q[i].val = v
        /\ (IF q[i].type = "int" THEN "simple" ELSE q[i].type) = t})

CountMarks(S, t, v) == Cardinality({m \in S : m.type = t /\ m.val = v})

Kinds == {"simple", "filled", "open", "predicted", "track", "tick",
          "tick_column"}

\* the last call was setMarks, it returned, and every supplied position
\* lies in [min, max]
C1_Case ==
    /\ lastOp.op = "setMarks"
    /\ raised = "none"
    /\ \A i \in 1..Len(lastOp.coll) :
           val_min <= lastOp.coll[i].val /\ lastOp.coll[i].val <= val_max

C10_OutOfRangeMarkRejected ==
    [][(lastOp'.op = "addMark"
          /\ (lastOp'.a > val_max \/ lastOp'.a < val_min))
         => /\ marks' = marks
            /\ mark_items' = mark_items
            /\ mark_labels' = mark_labels]_vars

\* addMark was called with a mark at max + 1
C10_Witness ==
    /\ lastOp.op = "addMark"
    /\ lastOp.a = val_max + 1

(***************************************************************************)
(* Properties of the contiguous selection.                                 *)
(***************************************************************************)
\* t is a range-track mark [s, e) with min < s and e <= max that no other
\* mark is adjacent to: no other mark at s - 1 or at e, no other track
\* reaching s or starting by e
IsolatedTrack(t) ==
    /\ t \in marks
    /\ t.type = "track"
    /\ val_min < t.val
    /\ t.end_val <= val_max
    /\ \A m \in marks \ {t} :
           /\ m.val # t.val - 1
           /\ m.val # t.end_val
           /\ m.type = "track" => (m.end_val < t.val \/ m.val > t.end_val)

\* the last call was contiguousSelectionMarksAroundVal(v), v inside t
C3_Case(t) ==
    /\ lastOp.op = "contiguousSelectionMarksAroundVal"
    /\ IsolatedTrack(t)
    /\ t.val <= lastOp.a
    /\ lastOp.a < t.end_val

\* C3 as stated: getSelection() then returns (s, e).
C3_SelectsTrackToEnd ==
    \A t \in marks : C3_Case(t) => getSelection(Cur) = <<t.val, t.end_val>>

\* C3 as amended: the call is setSelection(s, e - 1), from the first to
\* the last marked value.  With an even number of endpoints recorded before
\* it, getSelection() returns (s, e - 1), and the empty selection (0, 0)
\* when e - s = 1; with an odd number, the pending endpoint p stands in for
\* s (C2): (min(p, e - 1), max(p, e - 1)), and (0, 0) when p = e - 1.
C3_SelectsFirstToLastMarked ==
    \A t \in marks : C3_Case(t) =>
        LET n == Len(lastOp.sel0)
            p == IF n % 2 = 0 THEN t.val ELSE lastOp.sel0[n]
            q == t.end_val - 1
        IN  getSelection(Cur) = IF p = q THEN <<0, 0>>
                                ELSE <<IMin(p, q), IMax(p, q)>>

\* a value inside the lone track [11, 14) selected (11, 13)
C3_Witness ==
    /\ \E t \in marks : C3_Case(t) /\ t.val = 11 /\ t.end_val = 14
    /\ Len(lastOp.sel0) % 2 = 0
    /\ getSelection(Cur) = <<11, 13>>

(***************************************************************************)
(* Properties of the value, the zoom factor and the drag wiring.           *)
(***************************************************************************)
\* C5: in every reachable state zoom_factor >= 1, after any sequence of
\* setZoomRange calls and alt-modified zoom drags.
C5_ZoomFactorAtLeastOne == ~RLess(zoom_factor, RInt(1))

\* C6: in every reachable state the current value lies in [min, max], after
\* any sequence of setMinimum, setMaximum, setValue and moveHandle.
C6_ValueWithinRange == val_min <= val_main /\ val_main <= val_max

\* C7: at most one drag behaviour (moveHandle, moveSelectionAnchor,
\* moveZoomDrag) is wired to mouseMoved at any time.
C7_AtMostOneDragBehaviour == Cardinality(SeqRange(moveConns)) <= 1

\* C8: for every integer v in [min, max] and any positive slider width,
\* _toVal(_toPos(v)) = v with the center flag off.
C8_RoundTrip == lastOp.op = "_toVal" => conv.back = conv.val

\* v = 7 went through a position that is no whole pixel and came back as 7
C8_Witness ==
    /\ lastOp.op = "_toVal"
    /\ conv.val = 7
    /\ conv.pos[2] # 1
    /\ conv.back = 7

(***************************************************************************)
(* Track layout queries.                                                   *)
(***************************************************************************)
\* track rows asked about: 0..MaxRow
MaxRow == 350

\* a query's answer as numbers
Bit(b) == IF b THEN 1 ELSE 0

Returned(fn, args, out) == ret' = [fn |-> fn, args |-> args, out |-> out]

GetTrackColRow ==
    \E row \in 0..MaxRow :
        /\ Returned("getTrackColRow", <<row>>, getTrackColRow(row))
        /\ Commit(Cur)
        /\ Did("getTrackColRow", row, 0, FALSE, "")
        /\ UNCHANGED conv

GetTrackVerticalPos ==
    \E row \in 0..MaxRow :
        /\ Returned("getTrackVerticalPos", getTrackColRow(row),
                    <<getTrackVerticalPos(getTrackColRow(row)[1],
                                          getTrackColRow(row)[2])>>)
        /\ Commit(Cur)
        /\ Did("getTrackVerticalPos", row, 0, FALSE, "")
        /\ UNCHANGED conv

IsNewColTrack ==
    \E row \in 0..MaxRow :
        /\ Returned("isNewColTrack", <<row>>, <<Bit(isNewColTrack(row))>>)
        /\ Commit(Cur)
        /\ Did("isNewColTrack", row, 0, FALSE, "")
        /\ UNCHANGED conv

InitTrack == InitAs(Constructed(0, 20, 0, <<>>, 28))

NextTrack ==
    \/ GetTrackColRow
    \/ GetTrackVerticalPos
    \/ IsNewColTrack

SpecTrack == InitTrack /\ [][NextTrack]_vars

\* C11: getTrackColRow(row) returns (0, row) for every row < maxStacked,
\* and for row >= maxStacked it returns
\* (1 + (row - maxStacked) // (maxStacked - skipCount),
\*  (row - maxStacked) % (maxStacked - skipCount)).
C11_TrackColRow ==
    ret.fn = "getTrackColRow" =>
        LET row == ret.args[1]
            maxStacked == _max_tracks_stacked
            skipCount == _track_stack_skip_count
        IN  IF row < maxStacked
            THEN ret.out = <<0, row>>
            ELSE /\ ret.out[1] = 1 + (row - maxStacked) \div (maxStacked - skipCount)
                 /\ ret.out[2] = (row - maxStacked) % (maxStacked - skipCount)
                 /\ row = maxStacked + (ret.out[1] - 1) * (maxStacked - skipCount)
                            + ret.out[2]

\* with maxStacked = 120 and skipCount = 10, row 125 mapped to (1, 5)
C11_Witness ==
    /\ ret.fn = "getTrackColRow"
    /\ ret.args = <<125>>
    /\ ret.out = <<1, 5>>

(***************************************************************************)
(* Padding to a stride.                                                    *)
(***************************************************************************)
\* image heights and widths: 0..MaxDim
MaxDim == 17
\* strides: 1..MaxStride
MaxStride == 8

\* arguments drawn for a call that has not been made yet
Pending(args) == [fn |-> "", args |-> args, out |-> <<>>]

FindPaddingForStride ==
    /\ ret.fn = ""
    /\ Len(ret.args) = 3
    /\ Returned("find_padding_for_stride", ret.args,
                find_padding_for_stride(ret.args[1], ret.args[2], ret.args[3]))
    /\ UNCHANGED <<lastOp, conv>>
    /\ Commit(Cur)

\* the image has one channel
PadToStride ==
    /\ ret.fn = ""
    /\ Len(ret.args) = 3
    /\ Returned("pad_to_stride", ret.args,
                pad_to_stride(<<ret.args[1], ret.args[2], 1>>, ret.args[3]))
    /\ UNCHANGED <<lastOp, conv>>
    /\ Commit(Cur)

InitPad ==
    \E h \in 0..MaxDim, w \in 0..MaxDim, s \in 1..MaxStride :
        InitWith(Constructed(0, 20, 0, <<>>, 28), Pending(<<h, w, s>>))

NextPad ==
    \/ FindPaddingForStride
    \/ PadToStride

SpecPad == InitPad /\ [][NextPad]_vars

\* C12: for all heights h >= 0, widths w >= 0 and strides s >= 1,
\* find_padding_for_stride(h, w, s) returns (pb, pr) with 0 <= pb < s,
\* 0 <= pr < s, (h + pb) % s = 0 and (w + pr) % s = 0.
C12_MinimalPadding ==
    ret.fn = "find_padding_for_stride" =>
        LET h == ret.args[1]
            w == ret.args[2]
            s == ret.args[3]
            pb == ret.out[1]
            pr == ret.out[2]
        IN  /\ 0 <= pb /\ pb < s
            /\ 0 <= pr /\ pr < s
            /\ (h + pb) % s = 0
            /\ (w + pr) % s = 0

\* find_padding_for_stride(17, 9, 8) returned (7, 7)
C12_Witness ==
    /\ ret.fn = "find_padding_for_stride"
    /\ ret.args = <<17, 9, 8>>
    /\ ret.out = <<7, 7>>

(***************************************************************************)
(* The Resizer transform.                                                  *)
(***************************************************************************)
\* Resizer.scale values, as <<numerator, denominator>>
Scales == {<<1, 4>>, <<1, 2>>, <<1, 1>>, <<3, 2>>}
\* Resizer.pad_to_stride values
Strides == {1, 4, 16}

\* one example of the dataset goes through the mapping function; the
\* image has one channel
TransformDataset ==
    /\ ret.fn = ""
    /\ Len(ret.args) = 5
    /\ LET self == [scale |-> <<ret.args[3], ret.args[4]>>,
                    pad_to_stride |-> ret.args[5]]
           r == resize(self, <<ret.args[1], ret.args[2], 1>>)
       IN  /\ Returned("transform_dataset", ret.args,
                       IF r.raised = "none" THEN r.image ELSE <<>>)
           /\ Commit(Raise(Cur, r.raised))
    /\ UNCHANGED <<lastOp, conv>>

InitResizer ==
    \E h \in 1..MaxDim, w \in 1..MaxDim, sc \in Scales, s \in Strides :
        InitWith(Constructed(0, 20, 0, <<>>, 28),
                 Pending(<<h, w, sc[1], sc[2], s>>))

NextResizer == TransformDataset

SpecResizer == InitResizer /\ [][NextResizer]_vars

\* n is the smallest multiple of s that is >= d
SmallestMultiple(n, s, d) == n % s = 0 /\ n >= d /\ n - s < d

\* a Resizer with scale # 1 and pad_to_stride > 1 has transformed an image
C13_Case ==
    /\ ret.fn = "transform_dataset"
    /\ <<ret.args[3], ret.args[4]>> # <<1, 1>>
    /\ ret.args[5] > 1

\* C13 as stated: for an input image of height h and width w the output
\* height and width are the smallest multiples of s that are >= the
\* truncated scaled dimensions int(h * scale) and int(w * scale).
C13_ScaleThenPad ==
    C13_Case =>
        /\ raised = "none"
        /\ Len(ret.out) = 3
        /\ SmallestMultiple(ret.out[1], ret.args[5],
                            (ret.args[1] * ret.args[3]) \div ret.args[4])
        /\ SmallestMultiple(ret.out[2], ret.args[5],
                            (ret.args[2] * ret.args[3]) \div ret.args[4])

\* C13 as amended: the same when both truncated scaled dimensions are at
\* least 1; when one of them is 0 the transform fails with
\* InvalidArgumentError and there is no output image.
C13_ScaleThenPadNonEmpty ==
    C13_Case =>
        LET sh == (ret.args[1] * ret.args[3]) \div ret.args[4]
            sw == (ret.args[2] * ret.args[3]) \div ret.args[4]
        IN  IF sh >= 1 /\ sw >= 1
            THEN /\ raised = "none"
                 /\ SmallestMultiple(ret.out[1], ret.args[5], sh)
                 /\ SmallestMultiple(ret.out[2], ret.args[5], sw)
                 /\ ret.out[3] = 1
            ELSE raised = "InvalidArgumentError" /\ ret.out = <<>>

\* a 17 x 9 image, scale 0.5, stride 16: scaled to 8 x 4, padded to 16 x 16
C13_Witness ==
    /\ C13_Case
    /\ ret.args = <<17, 9, 1, 2, 16>>
    /\ ret.out = <<16, 16, 1>>

(***************************************************************************)
(* Properties of endSelection and of the shift-drag gesture.               *)
(***************************************************************************)
\* the endpoints recorded once endSelection(v, update) has appended v to
\* the sequence sel0 it started from
Recorded(sel0, v, update) ==
    Append(IF update /\ Len(sel0) % 2 = 0 /\ Len(sel0) > 0
           THEN SubSeq(sel0, 1, Len(sel0) - 1) ELSE sel0, v)

\* C14: after every endSelection(v, update) call, from any prior endpoint
\* sequence: if the last two recorded endpoints are equal the selection is
\* empty and getSelection() is (0, 0); otherwise selectionChanged is
\* emitted with (min, max) of those two endpoints and getSelection()
\* returns that same pair.
C14_EndSelectionOutcome ==
    (lastOp.op = "endSelection"
        /\ Len(Recorded(lastOp.sel0, lastOp.a, lastOp.flag)) >= 2) =>
        LET rec == Recorded(lastOp.sel0, lastOp.a, lastOp.flag)
            a == rec[Len(rec) - 1]
            b == rec[Len(rec)]
        IN  IF a = b
            THEN selection = <<>> /\ getSelection(Cur) = <<0, 0>>
            ELSE /\ Sig("selectionChanged", IMin(a, b), IMax(a, b))
                        \in SeqRange(emitted)
                 /\ getSelection(Cur) = <<IMin(a, b), IMax(a, b)>>

(***************************************************************************)
(* Drag gestures, with the gesture in progress on record.                  *)
(***************************************************************************)
\* pointer x positions of presses (inside the box) and of moves and
\* releases (anywhere)
PressXs == {5, 12}
DragXs == {5, 30}
DragMods == {"shift", "none"}

\* the selectionChanged signals in q, in order
SelChanges(q) ==
    LET IsChange(e) == e.sig = "selectionChanged"
    IN  SelectSeq(q, IsChange)

\* the gesture in progress once a move or release has been carried out:
\* the press that began it (its modifier, the value under it, whether it
\* found no earlier drag unfinished) and the selectionChanged signals
\* since; none once a release or another call has ended it
GestureAfter ==
    IF lastOp.op \in {"mousePressEvent", "mouseMoveEvent"}
    THEN [lastOp.prev EXCEPT !.sel0 = @ \o SelChanges(emitted')]
    ELSE NoPrev

DidDrag(name, x, val, mod, gesture) ==
    lastOp' = [op |-> name, a |-> x, b |-> val, flag |-> FALSE, mod |-> mod,
               sel0 |-> <<>>, coll |-> <<>>, prev |-> gesture]

\* the value under the pointer at x, as the selection anchors compute it
AnchorVal(x, center) == _toVal(Cur, ClampToBox(Cur, RInt(x)), center)

DragPress ==
    \E mod \in DragMods, x \in PressXs :
        /\ Len(releaseConns) < MaxConn
        /\ Commit(mousePressEvent(Cur, mod, RInt(x), TRUE))
        /\ DidDrag("mousePressEvent", x, AnchorVal(x, TRUE), mod,
                   [op |-> mod, a |-> AnchorVal(x, TRUE),
                    flag |-> releaseConns = <<>>,
                    sel0 |-> SelChanges(emitted')])
        /\ UNCHANGED <<conv, ret>>

DragMove ==
    \E x \in DragXs :
        /\ Commit(mouseMoveEvent(Cur, RInt(x)))
        /\ DidDrag("mouseMoveEvent", x, 0, "", GestureAfter)
        /\ UNCHANGED <<conv, ret>>

DragRelease ==
    \E x \in DragXs :
        /\ Commit(mouseReleaseEvent(Cur, RInt(x)))
        /\ DidDrag("mouseReleaseEvent", x, AnchorVal(x, FALSE), "",
                   GestureAfter)
        /\ UNCHANGED <<conv, ret>>

\* the widget is shown 28 pixels wide: one pixel per value
InitDrag == InitAs(resizeEvent(Constructed(0, 20, 0, <<>>, 28)))

NextDrag ==
    \/ DragPress
    \/ DragMove
    \/ DragRelease

SpecDrag == InitDrag /\ [][NextDrag]_vars

\* a release has ended a gesture that a shift-modified press began
C15_Case ==
    /\ lastOp.op = "mouseReleaseEvent"
    /\ lastOp.prev.op = "shift"

\* C15: a shift-modified press inside the slider at value a, followed by
\* any number of pointer moves and one release at value b, ends with
\* getSelection() = (min(a, b), max(a, b)) when a # b and an empty
\* selection when a = b; selectionChanged is emitted exactly once during
\* the gesture, at the release.
C15_ShiftDragSelects ==
    C15_Case =>
        LET a == lastOp.prev.a
            b == lastOp.b
        IN  /\ IF a # b
               THEN getSelection(Cur) = <<IMin(a, b), IMax(a, b)>>
               ELSE getSelection(Cur) = <<0, 0>>
            /\ Len(lastOp.prev.sel0) = 1
            /\ Len(SelChanges(emitted)) = 1

\* C15 for a press that found no earlier drag unfinished
C15_CleanShiftDragSelects == lastOp.prev.flag => C15_ShiftDragSelects

\* C16: every selection endpoint produced by a pointer gesture
\* (moveSelectionAnchor, releaseSelectionAnchor) lies in [min, max], for
\* every pointer x position.
C16_EndpointsWithinRange ==
    \A i \in 1..Len(selection) :
        val_min <= selection[i] /\ selection[i] <= val_max

\* C17: for every integer v in [min, max],
\* _toVal(_toPos(v, center=True), center=True) = v.
C17_CenteredRoundTrip == lastOp.op = "_toVal center" => conv.back = conv.val

\* C18: when max = min the position-to-value mapping is constant: every
\* pointer position maps to min, so moveHandle leaves the value at min
\* (and no conversion divides by zero).
C18_DegenerateRangeIsConstant ==
    (lastOp.op = "moveHandle" /\ val_min = val_max) =>
        /\ raised = "none"
        /\ val_main = val_min

(***************************************************************************)
(* Dragging the handle over marks, one pixel per value.                    *)
(***************************************************************************)
\* pointer x positions, from left of the box to right of it
SnapXs == -2 .. 30
\* the marks the slider is constructed with
SnapMarks == {<<>>,
              <<IntItem(10), IntItem(12)>>,
              <<IntItem(3), IntItem(4), IntItem(8)>>,
              <<SimpleT(6), TrackT(14, 18), IntItem(15)>>}

DragHandle ==
    \E x \in SnapXs :
        /\ Commit(moveHandle(Cur, RInt(x)))
        /\ Did("moveHandle", x, 0, FALSE, "")
        /\ UNCHANGED <<conv, ret>>

InitSnap ==
    \E coll \in SnapMarks :
        InitAs(resizeEvent(Constructed(0, 20, 0, Construct(coll, 1, {}), 28)))

NextSnap ==
    \/ DragHandle
    \/ SetValue

SpecSnap == InitSnap /\ [][NextSnap]_vars

\* the handle's centre for a pointer at x: centered, clamped to the slider
HandleCentre(x) ==
    RMin(RMax(RSub(RInt(x), Rat(handle_width, 2)), RInt(0)),
         _sliderWidth(Cur))

\* the value under the pointer at x
PointerVal(x) == _toVal(Cur, HandleCentre(x), FALSE)

\* the mark positions strictly between the values at the handle's edges
UnderHandle(x) ==
    {m.val : m \in {k \in marks :
        /\ _toVal(Cur, RSub(HandleCentre(x), Rat(handle_width, 2)), FALSE)
               < k.val
        /\ k.val
               < _toVal(Cur, RAdd(HandleCentre(x), Rat(handle_width, 2)), FALSE)}}

C19_Case == lastOp.op = "moveHandle" /\ raised = "none"

\* C19: moveHandle sets the value to the value under the centered, clamped
\* pointer unless some mark lies strictly between the values at the
\* handle's left and right edges; then it sets the value to the such mark
\* nearest to the pointer value, the lower one when two are equally near.
C19_SnapsToNearestMark ==
    C19_Case =>
        LET val == PointerVal(lastOp.a)
            near == UnderHandle(lastOp.a)
        IN  IF near = {} THEN val_main = val
            ELSE /\ val_main \in near
                 /\ \A o \in near :
                        \/ Abs(val_main - val) < Abs(o - val)
                        \/ Abs(val_main - val) = Abs(o - val) /\ val_main <= o

\* the pointer came down on 11 between the marks at 10 and 12, and the
\* value went to 10
C19_Witness ==
    /\ C19_Case
    /\ PointerVal(lastOp.a) = 11
    /\ {10, 12} \subseteq UnderHandle(lastOp.a)
    /\ 11 \notin UnderHandle(lastOp.a)
    /\ val_main = 10

(***************************************************************************)
(* The contiguous-mark searches as queries: the boundary returned and the  *)
(* values the loop re-scanned from.                                        *)
(***************************************************************************)
\* the marks the slider is constructed with: single, overlapping, nested
\* and adjacent tracks, simple marks running into a track
ScanInputs ==
    { <<>>,
      <<TrackT(5, 9)>>,
      <<TrackT(2, 6), TrackT(4, 8)>>,
      <<TrackT(1, 8), TrackT(3, 5)>>,
      <<TrackT(2, 4), TrackT(4, 6), TrackT(6, 8)>>,
      <<SimpleT(3), SimpleT(4), SimpleT(5), TrackT(5, 7)>> }
\* the slider's maximum: no tick marks up to 9, ticks at 9 and 19 up to 20
ScanMaxs == {9, 20}

GetStartContiguousMark ==
    \E v \in 0..MaxVal :
        /\ Returned("getStartContiguousMark", <<v>>,
                    <<getStartContiguousMark(Cur, v),
                      StartRescans(Cur, v,
                                   decrementContiguousMarkedVal(Cur, v))>>)
        /\ Commit(Cur)
        /\ Did("getStartContiguousMark", v, 0, FALSE, "")
        /\ UNCHANGED conv

GetEndContiguousMark ==
    \E v \in 0..MaxVal :
        /\ Returned("getEndContiguousMark", <<v>>,
                    <<getEndContiguousMark(Cur, v),
                      EndRescans(Cur, v,
                                 incrementContiguousMarkedVal(Cur, v))>>)
        /\ Commit(Cur)
        /\ Did("getEndContiguousMark", v, 0, FALSE, "")
        /\ UNCHANGED conv

InitScan ==
    \E coll \in ScanInputs, max \in ScanMaxs :
        InitAs(Constructed(0, max, 0, Construct(coll, 1, {}), 28))

NextScan ==
    \/ GetStartContiguousMark
    \/ GetEndContiguousMark

SpecScan == InitScan /\ [][NextScan]_vars

\* a search has returned
C20_Case == ret.fn \in {"getStartContiguousMark", "getEndContiguousMark"}

\* the last positions of the range tracks
TrackEnds == {m.end_val - 1 : m \in {k \in marks : k.type = "track"}}

\* q is strictly decreasing (dir = -1) or increasing (dir = 1) from v
Outward(v, q, dir) ==
    \A i \in 1..Len(q) :
        (IF i = 1 THEN v ELSE q[i - 1]) * dir < q[i] * dir

\* C20: for every mark set and every value v, getStartContiguousMark(v)
\* and getEndContiguousMark(v) finish after at most as many re-scan steps
\* as there are marks.
C20_AtMostOneStepPerMark ==
    C20_Case => Len(ret.out[2]) <= Cardinality(marks)

\* C20, amended: each re-scan starts from a boundary strictly outward of
\* the one before; the start search only moves onto mark positions and
\* re-scans at most once per mark, the end search moves onto mark
\* positions and last positions of range tracks and re-scans at most once
\* per mark plus once per range track.
C20_StepsBoundedByMarkPositions ==
    /\ ret.fn = "getStartContiguousMark" =>
           /\ Outward(ret.args[1], ret.out[2], -1)
           /\ SeqRange(ret.out[2]) \subseteq MarkVals(Cur)
           /\ Len(ret.out[2]) <= Cardinality(marks)
    /\ ret.fn = "getEndContiguousMark" =>
           /\ Outward(ret.args[1], ret.out[2], 1)
           /\ SeqRange(ret.out[2]) \subseteq MarkVals(Cur) \cup TrackEnds
           /\ Len(ret.out[2]) <= Cardinality(marks)
                  + Cardinality({k \in marks : k.type = "track"})

\* an end search that re-scanned more often than there are marks
C20_Witness ==
    /\ ret.fn = "getEndContiguousMark"
    /\ Len(ret.out[2]) > Cardinality(marks)

\* endSelection was called with no endpoint on record
C22_Case == lastOp.op = "endSelection" /\ lastOp.sel0 = <<>>

\* C22: endSelection(v, update) called when no endpoint is recorded, with
\* update either true or false, completes without raising an error and
\* leaves the slider with no endpoint or one pending endpoint on record.
C22_EndSelectionOnEmptyCompletes ==
    C22_Case => raised = "none" /\ Len(selection) <= 1

(***************************************************************************)
(* Tick marks under redraws, with min, max and the widget's width fixed.   *)
(***************************************************************************)
\* Qt delivers a resize event at the width the widget already has
ResizeSameWidth ==
    /\ Commit(resizeEvent(Cur))
    /\ Did("resizeEvent", width, 0, FALSE, "")
    /\ UNCHANGED <<conv, ret>>

\* the widget is shown 28 pixels wide
InitTicks == InitAs(resizeEvent(Constructed(0, 20, 0, <<>>, 28)))

NextTicks ==
    \/ SetMarks
    \/ UpdateHeight
    \/ ResizeSameWidth
    \/ SetZoomRange

SpecTicks == InitTicks /\ [][NextTicks]_vars

\* C21: after any sequence of setMarks, setTracks, setHeaderSeries,
\* clearHeader, resize and setZoomRange operations with min, max and the
\* widget's width fixed, the tick-kind marks in the mark set are exactly
\* the ticks of the most recent tick computation, one per tick position;
\* ticks of earlier computations never remain.
C21_OnlyCurrentTicks ==
    raised = "none" =>
        /\ getMarks(Cur, "tick") = SeqRange(tick_marks)
        /\ \A a \in getMarks(Cur, "tick"), b \in getMarks(Cur, "tick") :
               a.val = b.val => a = b

=============================================================================
